---- MODULE Spec2Model ----
(***************************************************************************)
(* The 6502 interpreter of rustnes: the CPU of src/src/cpu.rs running on   *)
(* the bus of src/src/bus.rs with the opcode table of src/src/opcodes.rs.  *)
(*                                                                         *)
(* The variable cpu is the CPU struct, the fields of its Bus included.     *)
(* The 2 KiB RAM and the PRG-ROM are kept sparse: a cell that is absent    *)
(* from the function holds 0.  A Rust panic ends the run: it is recorded   *)
(* in cpu.panic and every later step of the same call is skipped.          *)
(***************************************************************************)
EXTENDS Integers, Sequences, FiniteSets, TLC

VARIABLES
    cpu,              \* the CPU struct (cpu.rs:23-31) with its Bus (bus.rs:8-11)
    overflow_checks,  \* the build profile: TRUE when `+` panics on overflow
    phase,            \* "idle" | "running" | "returned" | "panicked"
    observed,         \* number of calls of the observer callback so far
    last              \* what the latest call or loop iteration started from

vars == <<cpu, overflow_checks, phase, observed, last>>

(***************************************************************************)
(* u8 / u16 arithmetic and the bit operators of Rust                       *)
(***************************************************************************)

U8 == 256
U16 == 65536

RECURSIVE BitAnd(_, _, _)
BitAnd(a, b, n) ==
    IF n = 0 THEN 0
    ELSE ((a % 2) * (b % 2)) + 2 * BitAnd(a \div 2, b \div 2, n - 1)

RECURSIVE BitOr(_, _, _)
BitOr(a, b, n) ==
    IF n = 0 THEN 0
    ELSE (IF (a % 2) + (b % 2) > 0 THEN 1 ELSE 0)
         + 2 * BitOr(a \div 2, b \div 2, n - 1)

RECURSIVE BitXor(_, _, _)
BitXor(a, b, n) ==
    IF n = 0 THEN 0
    ELSE (((a % 2) + (b % 2)) % 2) + 2 * BitXor(a \div 2, b \div 2, n - 1)

And8(a, b) == BitAnd(a, b, 8)
Or8(a, b) == BitOr(a, b, 8)
Xor8(a, b) == BitXor(a, b, 8)
And16(a, b) == BitAnd(a, b, 16)

wrapping_add8(a, b) == (a + b) % U8
wrapping_sub8(a, b) == (a - b + U8) % U8
wrapping_add16(a, b) == (a + b) % U16

\* `x as i8`: the signed reading of a byte
as_i8(v) == IF v >= 128 THEN v - U8 ELSE v

\* `(x as i8) as u16`: sign extension to 16 bits
i8_as_u16(v) == IF v >= 128 THEN v + (U16 - U8) ELSE v

(***************************************************************************)
(* What a faulting computation yields instead of a value.  A read of the   *)
(* PPU range runs todo!() (bus.rs:41); a `+` on u16 that overflows panics  *)
(* when the build checks overflow and wraps when it does not; an operand   *)
(* address asked for a mode that has none panics (cpu.rs:147).             *)
(***************************************************************************)

Unimplemented == -1
Overflowed == -2

Faulty(v) == v < 0

NoPanic == [msg |-> "", args |-> <<>>]

Unsupported == -3

PanicOf(v) ==
    IF v = Overflowed
    THEN [msg |-> "attempt to add with overflow", args |-> <<>>]
    ELSE IF v = Unsupported
    THEN [msg |-> "mode {:?} is not supported", args |-> <<>>]
    ELSE [msg |-> "not yet implemented: Impl PPU", args |-> <<>>]

Panicked(c) == c.panic # NoPanic

Raise(c, p) == IF Panicked(c) THEN c ELSE [c EXCEPT !.panic = p]

\* a + b on u16 with the plain `+` of Rust
add_u16(a, b) ==
    IF Faulty(a) THEN a
    ELSE IF a + b < U16 THEN a + b
    ELSE IF overflow_checks THEN Overflowed
    ELSE (a + b) % U16

(***************************************************************************)
(* Flags (cpu.rs:5-18)                                                     *)
(***************************************************************************)

CARRY == 1
ZERO == 2
INTERRUPT == 4
DECIMAL == 8
BREAK == 16
BREAKBIS == 32
OVERFLOW == 64
NEGATIVE == 128

contains(bits, flag) == (bits \div flag) % 2 = 1
insert(bits, flag) == IF contains(bits, flag) THEN bits ELSE bits + flag
remove(bits, flag) == IF contains(bits, flag) THEN bits - flag ELSE bits
set(bits, flag, value) == IF value THEN insert(bits, flag) ELSE remove(bits, flag)

\* Flags::from_bits_truncate: all eight bits are named flags, so nothing is cut
from_bits_truncate(bits) == bits % U8

STACK == 256
STACK_R == 253

(***************************************************************************)
(* The bus (bus.rs)                                                        *)
(***************************************************************************)

RAM == 0
RAM_END == 8191
PPU_REG == 8192
PPU_REG_END == 16383
PRG_ROM == 32768
PRG_BANK == 16384

\* a sparse array: the cells that are absent hold 0
Cell(mem, i) == IF i \in DOMAIN mem THEN mem[i] ELSE 0

Store(mem, i, data) ==
    IF data = 0
    THEN [j \in DOMAIN mem \ {i} |-> mem[j]]
    ELSE [j \in DOMAIN mem \cup {i} |-> IF j = i THEN data ELSE mem[j]]

read_prg_rom(c, address) ==
    LET addr == address - PRG_ROM
        idx == IF c.prg_len = PRG_BANK /\ addr >= PRG_BANK
               THEN addr % PRG_BANK
               ELSE addr
    IN Cell(c.prg_rom, idx)

\* a faulty mem_read, for testing what the mirroring property detects: the
\* RAM cell is indexed by the address itself
mem_read_unmasked(c, address) ==
    IF Faulty(address) THEN address
    ELSE IF address >= RAM /\ address <= RAM_END
         THEN Cell(c.cpu_vram, address)
    ELSE IF address >= PPU_REG /\ address <= PPU_REG_END
         THEN Unimplemented
    ELSE IF address >= PRG_ROM /\ address <= U16 - 1
         THEN read_prg_rom(c, address)
    ELSE 0

mem_read(c, address) ==
    IF Faulty(address) THEN address
    ELSE IF address >= RAM /\ address <= RAM_END
         THEN Cell(c.cpu_vram, And16(address, 2047))
    ELSE IF address >= PPU_REG /\ address <= PPU_REG_END
         THEN Unimplemented
    ELSE IF address >= PRG_ROM /\ address <= U16 - 1
         THEN read_prg_rom(c, address)
    ELSE 0

\* a faulty mem_write, for testing what the ROM property detects: a write to
\* 0x8000..=0xFFFF is dropped as a write to 0x4000..=0x7FFF is
mem_write_rom_ignored(c, address, data) ==
    IF Panicked(c) THEN c
    ELSE IF Faulty(address) THEN Raise(c, PanicOf(address))
    ELSE IF Faulty(data) THEN Raise(c, PanicOf(data))
    ELSE IF address >= RAM /\ address <= RAM_END
         THEN [c EXCEPT !.cpu_vram = Store(@, And16(address, 2047), data)]
    ELSE IF address >= PPU_REG /\ address <= PPU_REG_END
         THEN Raise(c, PanicOf(Unimplemented))
    ELSE c

mem_write(c, address, data) ==
    IF Panicked(c) THEN c
    ELSE IF Faulty(address) THEN Raise(c, PanicOf(address))
    ELSE IF Faulty(data) THEN Raise(c, PanicOf(data))
    ELSE IF address >= RAM /\ address <= RAM_END
         THEN [c EXCEPT !.cpu_vram = Store(@, And16(address, 2047), data)]
    ELSE IF address >= PPU_REG /\ address <= PPU_REG_END
         THEN Raise(c, PanicOf(Unimplemented))
    ELSE IF address >= PRG_ROM /\ address <= U16 - 1
         THEN Raise(c, [msg |-> "Do not write on ROM space !!", args |-> <<>>])
    ELSE c

mem_read_u16(c, pos) ==
    LET lo == mem_read(c, pos)
        hi == mem_read(c, add_u16(pos, 1))
    IN IF Faulty(pos) THEN pos
       ELSE IF Faulty(lo) THEN lo
       ELSE IF Faulty(hi) THEN hi
       ELSE hi * 256 + lo

mem_write_u16(c, pos, data) ==
    LET hi == data \div 256
        lo == data % 256
    IN mem_write(mem_write(c, pos, lo), add_u16(pos, 1), hi)

(***************************************************************************)
(* The opcode table (opcodes.rs).  Codes are written in decimal; the       *)
(* rows are in the order of the source.                                    *)
(***************************************************************************)

Op(code, mnemonic, len, cycles, mode) ==
    [code |-> code, mnemonic |-> mnemonic, len |-> len, cycles |-> cycles,
     mode |-> mode]

OPS_CODES ==
    <<
        Op(0, "BRK", 1, 7, "NoneAddressing"),
        Op(170, "TAX", 1, 2, "NoneAddressing"),
        Op(232, "INX", 1, 2, "NoneAddressing"),
        Op(105, "ADC", 2, 2, "Immediate"),
        Op(101, "ADC", 2, 3, "ZeroPage"),
        Op(117, "ADC", 2, 4, "ZeroPage_X"),
        Op(109, "ADC", 3, 4, "Absolute"),
        Op(125, "ADC", 3, 4, "Absolute_X"),
        Op(121, "ADC", 3, 4, "Absolute_Y"),
        Op(97, "ADC", 2, 6, "Indirect_X"),
        Op(113, "ADC", 2, 5, "Indirect_Y"),
        Op(41, "AND", 2, 2, "Immediate"),
        Op(37, "AND", 2, 3, "ZeroPage"),
        Op(53, "AND", 2, 4, "ZeroPage_X"),
        Op(45, "AND", 2, 4, "Absolute"),
        Op(61, "AND", 3, 4, "Absolute_X"),
        Op(57, "AND", 3, 4, "Absolute_Y"),
        Op(33, "AND", 2, 6, "Indirect_X"),
        Op(49, "AND", 2, 5, "Indirect_Y"),
        Op(10, "ASL", 1, 2, "NoneAddressing"),
        Op(6, "ASL", 2, 5, "ZeroPage"),
        Op(22, "ASL", 2, 6, "ZeroPage_X"),
        Op(14, "ASL", 3, 6, "Absolute"),
        Op(30, "ASL", 3, 7, "Absolute_X"),
        Op(144, "BCC", 2, 2, "NoneAddressing"),
        Op(176, "BCS", 2, 2, "NoneAddressing"),
        Op(240, "BEQ", 2, 2, "NoneAddressing"),
        Op(36, "BIT", 2, 3, "ZeroPage"),
        Op(44, "BIT", 3, 4, "Absolute"),
        Op(48, "BMI", 2, 2, "NoneAddressing"),
        Op(208, "BNE", 2, 2, "NoneAddressing"),
        Op(16, "BPL", 2, 2, "NoneAddressing"),
        Op(80, "BVC", 2, 2, "NoneAddressing"),
        Op(112, "BVS", 2, 2, "NoneAddressing"),
        Op(169, "LDA", 2, 2, "Immediate"),
        Op(165, "LDA", 2, 3, "ZeroPage"),
        Op(181, "LDA", 2, 4, "ZeroPage_X"),
        Op(173, "LDA", 3, 4, "Absolute"),
        Op(189, "LDA", 3, 4, "Absolute_X"),
        Op(185, "LDA", 3, 4, "Absolute_Y"),
        Op(161, "LDA", 2, 6, "Indirect_X"),
        Op(177, "LDA", 2, 5, "Indirect_Y"),
        Op(133, "STA", 2, 3, "ZeroPage"),
        Op(149, "STA", 2, 4, "ZeroPage_X"),
        Op(141, "STA", 3, 4, "Absolute"),
        Op(157, "STA", 3, 5, "Absolute_X"),
        Op(153, "STA", 3, 5, "Absolute_Y"),
        Op(129, "STA", 2, 6, "Indirect_X"),
        Op(145, "STA", 2, 6, "Indirect_Y")
    >>

\* the codes that have a record
OpCodeSet == {OPS_CODES[i].code : i \in DOMAIN OPS_CODES}

\* HashMap::insert keeps the last record inserted for a code
OPCODES_MAP ==
    [code \in OpCodeSet |->
        LET rows == {i \in DOMAIN OPS_CODES : OPS_CODES[i].code = code}
            latest == CHOOSE i \in rows : \A j \in rows : j <= i
        IN OPS_CODES[latest]]

(***************************************************************************)
(* The CPU (cpu.rs): addressing                                            *)
(***************************************************************************)

\* a faulty get_absolute_address, for testing what the addressing property
\* detects: both indirect modes read the pointer's high byte at ptr + 1
\* without wrapping it into page 0
get_absolute_address_page_1(c, mode, addr) ==
    CASE mode = "ZeroPage" -> mem_read(c, addr)
      [] mode = "Absolute" -> mem_read_u16(c, addr)
      [] mode = "ZeroPage_X" -> wrapping_add8(mem_read(c, addr), c.register_x)
      [] mode = "ZeroPage_Y" -> wrapping_add8(mem_read(c, addr), c.register_y)
      [] mode = "Absolute_X" ->
            wrapping_add16(mem_read_u16(c, addr), c.register_x)
      [] mode = "Absolute_Y" ->
            wrapping_add16(mem_read_u16(c, addr), c.register_y)
      [] mode = "Indirect_X" ->
            mem_read(c, wrapping_add8(mem_read(c, addr), c.register_x) + 1) * 256
            + mem_read(c, wrapping_add8(mem_read(c, addr), c.register_x))
      [] mode = "Indirect_Y" ->
            wrapping_add16(mem_read(c, mem_read(c, addr) + 1) * 256
                           + mem_read(c, mem_read(c, addr)),
                           c.register_y)
      [] OTHER -> Unsupported

get_absolute_address(c, mode, addr) ==
    CASE mode = "ZeroPage" -> mem_read(c, addr)
      [] mode = "Absolute" -> mem_read_u16(c, addr)
      [] mode = "ZeroPage_X" ->
            LET pos == mem_read(c, addr)
            IN IF Faulty(pos) THEN pos ELSE wrapping_add8(pos, c.register_x)
      [] mode = "ZeroPage_Y" ->
            LET pos == mem_read(c, addr)
            IN IF Faulty(pos) THEN pos ELSE wrapping_add8(pos, c.register_y)
      [] mode = "Absolute_X" ->
            LET base == mem_read_u16(c, addr)
            IN IF Faulty(base) THEN base
               ELSE wrapping_add16(base, c.register_x)
      [] mode = "Absolute_Y" ->
            LET base == mem_read_u16(c, addr)
            IN IF Faulty(base) THEN base
               ELSE wrapping_add16(base, c.register_y)
      [] mode = "Indirect_X" ->
            LET base == mem_read(c, addr)
                ptr == wrapping_add8(base, c.register_x)
                lo == mem_read(c, ptr)
                hi == mem_read(c, wrapping_add8(ptr, 1))
            IN IF Faulty(base) THEN base ELSE hi * 256 + lo
      [] mode = "Indirect_Y" ->
            LET base == mem_read(c, addr)
                lo == mem_read(c, base)
                hi == mem_read(c, wrapping_add8(base, 1))
                deref_base == hi * 256 + lo
            IN IF Faulty(base) THEN base
               ELSE wrapping_add16(deref_base, c.register_y)
      [] OTHER -> Unsupported

get_operand_address(c, mode) ==
    IF mode = "Immediate"
    THEN c.program_counter
    ELSE get_absolute_address(c, mode, c.program_counter)

\* the byte a handler reads at its operand address
operand(c, mode) == mem_read(c, get_operand_address(c, mode))

(***************************************************************************)
(* The CPU: flags, accumulator, stack                                      *)
(***************************************************************************)

update_z_n_flags(c, result) ==
    LET z == IF result = 0
             THEN insert(c.status, ZERO)
             ELSE remove(c.status, ZERO)
        n == IF And8(result, 128) # 0
             THEN insert(z, NEGATIVE)
             ELSE remove(z, NEGATIVE)
    IN [c EXCEPT !.status = n]

set_a(c, data) ==
    update_z_n_flags([c EXCEPT !.register_a = data], data)

\* `res ^ data & res ^ self.register_a ^ 0b10000000 != 0`: in Rust `&` binds
\* tighter than `^`, and both bind tighter than `!=`
add_to_a_overflow(res, data, a) ==
    Xor8(Xor8(Xor8(res, And8(data, res)), a), 128) # 0

add_to_a(c, data) ==
    LET sum == c.register_a + data
               + (IF contains(c.status, CARRY) THEN 1 ELSE 0)
        carry == sum > 255
        c1 == [c EXCEPT !.status = set(@, CARRY, carry)]
        res == sum % U8
        c2 == [c1 EXCEPT !.status =
                  set(@, OVERFLOW, add_to_a_overflow(res, data, c.register_a))]
    IN set_a(c2, res)

\* stack_pop moves the stack pointer, then reads
stack_pop_cpu(c) ==
    [c EXCEPT !.stack_pointer = wrapping_add8(@, 1)]

stack_pop_value(c) ==
    mem_read(c, STACK + stack_pop_cpu(c).stack_pointer)

stack_push(c, data) ==
    LET c1 == mem_write(c, STACK + c.stack_pointer, data)
    IN IF Panicked(c1) THEN c1
       ELSE [c1 EXCEPT !.stack_pointer = wrapping_sub8(@, 1)]

stack_push_u16(c, data) ==
    IF Faulty(data) THEN Raise(c, PanicOf(data))
    ELSE LET hi == data \div 256
             lo == data % 256
         IN stack_push(stack_push(c, hi), lo)

stack_pop_u16_cpu(c) == stack_pop_cpu(stack_pop_cpu(c))

stack_pop_u16_value(c) ==
    LET lo == stack_pop_value(c)
        hi == stack_pop_value(stack_pop_cpu(c))
    IN hi * 256 + lo

php(c) ==
    LET status_flags == insert(insert(c.status, BREAK), BREAKBIS)
    IN stack_push(c, status_flags)

pla(c) ==
    LET stack_data == stack_pop_value(c)
    IN set_a(stack_pop_cpu(c), stack_data)

plp(c) ==
    LET bits == stack_pop_value(c)
    IN [stack_pop_cpu(c) EXCEPT !.status = remove(remove(bits, BREAK), BREAKBIS)]

(***************************************************************************)
(* The CPU: instruction handlers                                           *)
(***************************************************************************)

adc(c, mode) ==
    LET value == operand(c, mode)
    IN IF Faulty(value) THEN Raise(c, PanicOf(value)) ELSE add_to_a(c, value)

cmp(c, mode, comparing_value) ==
    LET value == operand(c, mode)
        c1 == [c EXCEPT !.status = set(@, CARRY, value <= comparing_value)]
    IN IF Faulty(value) THEN Raise(c, PanicOf(value))
       ELSE update_z_n_flags(c1, wrapping_sub8(comparing_value, value))

\* i8::wrapping_neg, i8::wrapping_sub and `as u8`
wrapping_neg_i8(v) == IF v = -128 THEN -128 ELSE -v
wrapping_sub_i8(a, b) == ((a - b + 128) % U8) - 128
i8_as_u8(v) == (v + U8) % U8

sbc(c, mode) ==
    LET value == operand(c, mode)
        data == as_i8(value)
    IN IF Faulty(value) THEN Raise(c, PanicOf(value))
       ELSE add_to_a(c, i8_as_u8(wrapping_sub_i8(wrapping_neg_i8(data), 1)))

and(c, mode) ==
    LET value == operand(c, mode)
    IN IF Faulty(value) THEN Raise(c, PanicOf(value))
       ELSE set_a(c, And8(value, c.register_a))

bit(c, mode) ==
    LET data == operand(c, mode)
        z == set(c.status, ZERO, And8(c.register_a, data) = 0)
        n == set(z, NEGATIVE, And8(data, 128) > 0)
        v == set(n, OVERFLOW, And8(data, 64) > 0)
    IN IF Faulty(data) THEN Raise(c, PanicOf(data))
       ELSE [c EXCEPT !.status = v]

eor(c, mode) ==
    LET value == operand(c, mode)
    IN IF Faulty(value) THEN Raise(c, PanicOf(value))
       ELSE set_a(c, Xor8(value, c.register_a))

ora(c, mode) ==
    LET value == operand(c, mode)
    IN IF Faulty(value) THEN Raise(c, PanicOf(value))
       ELSE set_a(c, Or8(value, c.register_a))

\* `data << 1` and `data >> 1` on u8
shl(data) == (data * 2) % U8
shr(data) == data \div 2

asl_acc(c) ==
    LET data == c.register_a
        c1 == [c EXCEPT !.status = set(@, CARRY, data \div 128 = 1)]
    IN set_a(c1, shl(data))

lsr_acc(c) ==
    LET data == c.register_a
        c1 == [c EXCEPT !.status = set(@, CARRY, And8(data, 1) = 1)]
    IN set_a(c1, shr(data))

rol_acc(c) ==
    LET data == c.register_a
        carry_cond == data \div 128 = 1
        rotated == IF contains(c.status, CARRY)
                   THEN Or8(shl(data), 1)
                   ELSE shl(data)
        c1 == [c EXCEPT !.status = set(@, CARRY, carry_cond)]
    IN set_a(c1, rotated)

\* the rotated byte is computed and dropped: only the carry is updated
ror_acc(c) ==
    LET data == c.register_a
        carry_cond == And8(data, 1) = 1
    IN [c EXCEPT !.status = set(@, CARRY, carry_cond)]

\* the memory forms: read, set the carry, write back, update Z and N
read_modify_write(c, mode, data, carry) ==
    LET address == get_operand_address(c, mode)
        c1 == [c EXCEPT !.status = set(@, CARRY, carry)]
        c2 == mem_write(c1, address, data)
    IN IF Panicked(c2) THEN c2 ELSE update_z_n_flags(c2, data)

asl(c, mode) ==
    LET data == operand(c, mode)
    IN IF Faulty(data) THEN Raise(c, PanicOf(data))
       ELSE read_modify_write(c, mode, shl(data), data \div 128 = 1)

lsr(c, mode) ==
    LET data == operand(c, mode)
    IN IF Faulty(data) THEN Raise(c, PanicOf(data))
       ELSE read_modify_write(c, mode, shr(data), And8(data, 1) = 1)

rol(c, mode) ==
    LET data == operand(c, mode)
        rotated == IF contains(c.status, CARRY)
                   THEN Or8(shl(data), 1)
                   ELSE shl(data)
    IN IF Faulty(data) THEN Raise(c, PanicOf(data))
       ELSE read_modify_write(c, mode, rotated, data \div 128 = 1)

ror(c, mode) ==
    LET data == operand(c, mode)
        rotated == IF contains(c.status, CARRY)
                   THEN Or8(shr(data), 128)
                   ELSE shr(data)
    IN IF Faulty(data) THEN Raise(c, PanicOf(data))
       ELSE read_modify_write(c, mode, rotated, And8(data, 1) = 1)

lda(c, mode) ==
    LET value == operand(c, mode)
    IN IF Faulty(value) THEN Raise(c, PanicOf(value)) ELSE set_a(c, value)

ldx(c, mode) ==
    LET value == operand(c, mode)
    IN IF Faulty(value) THEN Raise(c, PanicOf(value))
       ELSE update_z_n_flags([c EXCEPT !.register_x = value], value)

ldy(c, mode) ==
    LET value == operand(c, mode)
    IN IF Faulty(value) THEN Raise(c, PanicOf(value))
       ELSE update_z_n_flags([c EXCEPT !.register_y = value], value)

sta(c, mode) == mem_write(c, get_operand_address(c, mode), c.register_a)

stx(c, mode) == mem_write(c, get_operand_address(c, mode), c.register_x)

sty(c, mode) == mem_write(c, get_operand_address(c, mode), c.register_y)

dec(c, mode) ==
    LET value == operand(c, mode)
        data == wrapping_sub8(value, 1)
        c1 == mem_write(c, get_operand_address(c, mode), data)
    IN IF Faulty(value) THEN Raise(c, PanicOf(value))
       ELSE IF Panicked(c1) THEN c1
       ELSE update_z_n_flags(c1, data)

inc(c, mode) ==
    LET value == operand(c, mode)
        data == wrapping_add8(value, 1)
        c1 == mem_write(c, get_operand_address(c, mode), data)
    IN IF Faulty(value) THEN Raise(c, PanicOf(value))
       ELSE IF Panicked(c1) THEN c1
       ELSE update_z_n_flags(c1, data)

dex(c) ==
    LET v == wrapping_sub8(c.register_x, 1)
    IN update_z_n_flags([c EXCEPT !.register_x = v], v)

dey(c) ==
    LET v == wrapping_sub8(c.register_y, 1)
    IN update_z_n_flags([c EXCEPT !.register_y = v], v)

inx(c) ==
    LET v == wrapping_add8(c.register_x, 1)
    IN update_z_n_flags([c EXCEPT !.register_x = v], v)

iny(c) ==
    LET v == wrapping_add8(c.register_y, 1)
    IN update_z_n_flags([c EXCEPT !.register_y = v], v)

b(c, cond) ==
    IF cond
    THEN LET curr_at_counter == mem_read(c, c.program_counter)
             address == wrapping_add16(wrapping_add16(c.program_counter, 1),
                                       i8_as_u16(curr_at_counter))
         IN IF Faulty(curr_at_counter)
            THEN Raise(c, PanicOf(curr_at_counter))
            ELSE [c EXCEPT !.program_counter = address]
    ELSE c

(***************************************************************************)
(* The CPU: the match of run_with_callback (cpu.rs:566-841).  The arms     *)
(* are in the order of the source; 0x00 returns and is handled by the      *)
(* loop itself.                                                            *)
(***************************************************************************)

\* an assignment to program_counter of a value that may have faulted
set_program_counter(c, value) ==
    IF Faulty(value) THEN Raise(c, PanicOf(value))
    ELSE [c EXCEPT !.program_counter = value]

jmp_absolute(c) ==
    LET mem_address == mem_read_u16(c, c.program_counter)
    IN IF Faulty(mem_address) THEN Raise(c, PanicOf(mem_address))
       ELSE [c EXCEPT !.program_counter = mem_address]

jmp_indirect(c) ==
    LET mem_address == mem_read_u16(c, c.program_counter)
        reference ==
            IF And16(mem_address, 255) = 255
            THEN LET lo == mem_read(c, mem_address)
                     hi == mem_read(c, And16(mem_address, 65280))
                 IN IF Faulty(lo) THEN lo
                    ELSE IF Faulty(hi) THEN hi
                    ELSE hi * 256 + lo
            ELSE mem_read_u16(c, mem_address)
    IN IF Faulty(mem_address) THEN Raise(c, PanicOf(mem_address))
       ELSE IF Faulty(reference) THEN Raise(c, PanicOf(reference))
       ELSE [c EXCEPT !.program_counter = reference]

\* `self.program_counter + 2 - 1`
jsr_return_address(c) ==
    LET plus2 == add_u16(c.program_counter, 2)
    IN IF Faulty(plus2) THEN plus2 ELSE (plus2 - 1 + U16) % U16

jsr(c) ==
    LET c1 == stack_push_u16(c, jsr_return_address(c))
        target == mem_read_u16(c1, c1.program_counter)
    IN IF Panicked(c1) THEN c1
       ELSE IF Faulty(target) THEN Raise(c1, PanicOf(target))
       ELSE [c1 EXCEPT !.program_counter = target]

rti(c) ==
    LET bits == stack_pop_value(c)
        c1 == [stack_pop_cpu(c) EXCEPT
                  !.status = insert(remove(bits, BREAK), BREAKBIS)]
    IN [stack_pop_u16_cpu(c1) EXCEPT
           !.program_counter = stack_pop_u16_value(c1)]

rts(c) ==
    LET pulled == add_u16(stack_pop_u16_value(c), 1)
        c1 == stack_pop_u16_cpu(c)
    IN IF Faulty(pulled) THEN Raise(c1, PanicOf(pulled))
       ELSE [c1 EXCEPT !.program_counter = pulled]

dispatch(c, code, opcode) ==
    CASE code \in {105, 101, 117, 109, 125, 121, 97, 113} -> adc(c, opcode.mode)
      [] code \in {201, 205, 221, 217, 197, 213, 193, 209} ->
            cmp(c, opcode.mode, c.register_a)
      [] code \in {224, 236, 228} -> cmp(c, opcode.mode, c.register_x)
      [] code \in {192, 204, 196} -> cmp(c, opcode.mode, c.register_y)
      [] code \in {233, 237, 253, 249, 229, 245, 225, 241} -> sbc(c, opcode.mode)
      [] code = 72 -> stack_push(c, c.register_a)
      [] code = 8 -> php(c)
      [] code = 104 -> pla(c)
      [] code = 40 -> plp(c)
      [] code \in {41, 37, 53, 45, 61, 57, 33, 49} -> and(c, opcode.mode)
      [] code \in {36, 44} -> bit(c, opcode.mode)
      [] code \in {73, 77, 93, 89, 69, 85, 65, 81} -> eor(c, opcode.mode)
      [] code \in {9, 13, 29, 25, 5, 21, 1, 17} -> ora(c, opcode.mode)
      [] code = 10 -> asl_acc(c)
      [] code = 74 -> lsr_acc(c)
      [] code = 42 -> rol_acc(c)
      [] code = 106 -> ror_acc(c)
      [] code \in {6, 22, 14, 30} -> asl(c, opcode.mode)
      [] code \in {78, 94, 70, 86} -> lsr(c, opcode.mode)
      [] code \in {46, 62, 38, 54} -> rol(c, opcode.mode)
      [] code \in {110, 126, 102, 118} -> ror(c, opcode.mode)
      [] code \in {169, 165, 181, 173, 189, 185, 161, 177} -> lda(c, opcode.mode)
      [] code \in {162, 174, 190, 166, 182} -> ldx(c, opcode.mode)
      [] code \in {160, 172, 188, 164, 180} -> ldy(c, opcode.mode)
      [] code \in {133, 149, 141, 157, 153, 129, 145} -> sta(c, opcode.mode)
      [] code \in {142, 134, 150} -> stx(c, opcode.mode)
      [] code \in {140, 132, 148} -> sty(c, opcode.mode)
      [] code = 144 -> b(c, ~contains(c.status, CARRY))
      [] code = 176 -> b(c, contains(c.status, CARRY))
      [] code = 240 -> b(c, contains(c.status, ZERO))
      [] code = 48 -> b(c, contains(c.status, NEGATIVE))
      [] code = 208 -> b(c, ~contains(c.status, ZERO))
      [] code = 16 -> b(c, ~contains(c.status, NEGATIVE))
      [] code = 80 -> b(c, ~contains(c.status, OVERFLOW))
      [] code = 112 -> b(c, contains(c.status, OVERFLOW))
      [] code = 24 -> [c EXCEPT !.status = remove(@, CARRY)]
      [] code = 216 -> [c EXCEPT !.status = remove(@, DECIMAL)]
      [] code = 88 -> [c EXCEPT !.status = remove(@, INTERRUPT)]
      [] code = 184 -> [c EXCEPT !.status = remove(@, OVERFLOW)]
      [] code = 56 -> [c EXCEPT !.status = insert(@, CARRY)]
      [] code = 248 -> [c EXCEPT !.status = insert(@, DECIMAL)]
      [] code = 120 -> [c EXCEPT !.status = insert(@, INTERRUPT)]
      [] code = 170 ->
            update_z_n_flags([c EXCEPT !.register_x = c.register_a], c.register_a)
      [] code = 168 ->
            update_z_n_flags([c EXCEPT !.register_y = c.register_a], c.register_a)
      [] code = 186 ->
            update_z_n_flags([c EXCEPT !.register_x = c.stack_pointer],
                             c.stack_pointer)
      [] code = 138 -> set_a(c, c.register_x)
      [] code = 154 ->
            update_z_n_flags([c EXCEPT !.stack_pointer = c.register_x],
                             c.register_x)
      [] code = 152 -> set_a(c, c.register_y)
      [] code \in {206, 222, 198, 214} -> dec(c, opcode.mode)
      [] code \in {238, 254, 230, 246} -> inc(c, opcode.mode)
      [] code = 202 -> dex(c)
      [] code = 136 -> dey(c)
      [] code = 232 -> inx(c)
      [] code = 200 -> iny(c)
      [] code = 76 -> jmp_absolute(c)
      [] code = 108 -> jmp_indirect(c)
      [] code = 32 -> jsr(c)
      [] code = 64 -> rti(c)
      [] code = 96 -> rts(c)
      [] code = 234 -> c
      [] OTHER -> Raise(c, [msg |-> "not yet implemented", args |-> <<>>])

(***************************************************************************)
(* One iteration of the loop of run_with_callback (cpu.rs:559-848):        *)
(* the CPU it leaves, how the iteration ended, and whether the observer    *)
(* was called.                                                             *)
(***************************************************************************)

Ended(c, how, calls) == [cpu |-> c, phase |-> how, calls |-> calls]

\* the post-dispatch bump of the program counter (cpu.rs:843-845)
bump(c, program_counter_state, opcode) ==
    IF program_counter_state = c.program_counter
    THEN set_program_counter(c, add_u16(c.program_counter, opcode.len - 1))
    ELSE c

\* a faulty loop tail, for testing what the observer property detects: the
\* iteration ends without calling the observer
loop_tail_silent(c) ==
    IF Panicked(c) THEN Ended(c, "panicked", 0) ELSE Ended(c, "running", 0)

\* the observer is called when the iteration got that far (cpu.rs:847)
loop_tail(c) ==
    IF Panicked(c) THEN Ended(c, "panicked", 0) ELSE Ended(c, "running", 1)

\* what follows the match (cpu.rs:843-847)
dispatched(c, program_counter_state, opcode) ==
    IF Panicked(c) THEN Ended(c, "panicked", 0)
    ELSE loop_tail(bump(c, program_counter_state, opcode))

\* the lookup and the match (cpu.rs:564-841); 0x00 returns
decode(c, code) ==
    IF code \notin DOMAIN OPCODES_MAP
    THEN Ended(Raise(c, [msg |-> "OpCode {:x} is not recognized",
                         args |-> <<code>>]), "panicked", 0)
    ELSE IF code = 0 THEN Ended(c, "returned", 0)
    ELSE dispatched(dispatch(c, code, OPCODES_MAP[code]),
                    c.program_counter, OPCODES_MAP[code])

\* the fetch (cpu.rs:560-562)
fetched(c, code, next_pc) ==
    IF Faulty(code) THEN Ended(Raise(c, PanicOf(code)), "panicked", 0)
    ELSE IF Faulty(next_pc) THEN Ended(Raise(c, PanicOf(next_pc)), "panicked", 0)
    ELSE decode([c EXCEPT !.program_counter = next_pc], code)

loop_body(c) ==
    fetched(c, mem_read(c, c.program_counter), add_u16(c.program_counter, 1))

(***************************************************************************)
(* The calls of the CPU's public interface                                 *)
(***************************************************************************)

\* CPU::new over Bus::new: registers as constructed, RAM all zero
new(prg_rom, prg_len) ==
    [register_a |-> 0,
     register_x |-> 0,
     register_y |-> 0,
     status |-> from_bits_truncate(36),
     stack_pointer |-> STACK_R,
     program_counter |-> 0,
     cpu_vram |-> <<>>,
     prg_rom |-> prg_rom,
     prg_len |-> prg_len,
     panic |-> NoPanic]

RECURSIVE load_bytes(_, _, _)
load_bytes(c, program, i) ==
    IF i >= Len(program) \/ Panicked(c) THEN c
    ELSE load_bytes(mem_write(c, add_u16(1536, i), program[i + 1]),
                    program, i + 1)

load(c, program) ==
    mem_write_u16(load_bytes(c, program, 0), 65532, 1536)

\* a faulty reset, for testing what the reset property detects: it starts
\* at the first byte of PRG-ROM whatever the reset vector holds
reset_to_prg_rom(c) ==
    [c EXCEPT !.register_a = 0,
              !.register_x = 0,
              !.register_y = 0,
              !.stack_pointer = STACK_R,
              !.status = from_bits_truncate(36),
              !.program_counter = PRG_ROM]

reset(c) ==
    LET vector == mem_read_u16(c, 65532)
        c1 == [c EXCEPT !.register_a = 0,
                        !.register_x = 0,
                        !.register_y = 0,
                        !.stack_pointer = STACK_R,
                        !.status = from_bits_truncate(36)]
    IN IF Faulty(vector) THEN Raise(c1, PanicOf(vector))
       ELSE [c1 EXCEPT !.program_counter = vector]

(***************************************************************************)
(* The inputs: cartridges, register files a caller sets up before a run,   *)
(* bytes a caller writes to the bus, programs handed to load.              *)
(***************************************************************************)

MaxObserved == 3

\* operand bytes: 0x00 0x03 0x10 0x50 0x80 0xFF
OperandBytes == {0, 3, 16, 80, 128, 255}

\* high bytes of absolute operands: page 0 and the PRG-ROM itself
HighBytes == {0, 128}

\* one-byte instructions: those of the table, then others the match names,
\* then two bytes (0x02, 0xFF) that neither the table nor the match names
OneByteCodes ==
    {0, 170, 232, 10}
    \cup {8, 40, 72, 104, 96, 64, 106, 74, 42, 154, 186, 138, 152, 168,
          202, 136, 200, 234, 24, 56}
    \cup {2, 255}

\* two-byte instructions of the table (0x2d is among them with len 2), then
\* SBC, LDX, LDY, ORA, EOR, CPX immediate
TwoByteCodes ==
    {OPS_CODES[i].code : i \in {j \in DOMAIN OPS_CODES : OPS_CODES[j].len = 2}}
    \cup {233, 162, 160, 9, 73, 224}

\* three-byte instructions of the table, then JMP, JMP indirect, JSR, STX abs
ThreeByteCodes ==
    {OPS_CODES[i].code : i \in {j \in DOMAIN OPS_CODES : OPS_CODES[j].len = 3}}
    \cup {76, 108, 32, 142}

\* LDX #8; loop: DEX; STX $0200; CPX #3; BNE loop; BRK
Countdown == <<162, 8, 202, 142, 0, 2, 224, 3, 208, 248, 0>>

Programs ==
    {<<code>> : code \in OneByteCodes}
    \cup {<<code, m>> : code \in TwoByteCodes, m \in OperandBytes}
    \cup {<<code, lo, hi>> : code \in ThreeByteCodes, lo \in OperandBytes,
                             hi \in HighBytes}

PrgLens == {PRG_BANK, 2 * PRG_BANK}

Origins == {32768}

\* what the cartridge holds at 0xFFFC: the origin, and for the one-byte
\* programs also 0x1234, an address in the mirrored RAM
ResetVectors(program, origin) ==
    IF Len(program) = 1 THEN {origin, 4660} ELSE {origin}

\* where read_prg_rom finds the byte of an address
prg_index(prg_len, address) ==
    LET addr == address - PRG_ROM
    IN IF prg_len = PRG_BANK /\ addr >= PRG_BANK THEN addr % PRG_BANK ELSE addr

\* a zero-filled PRG-ROM holding the program at origin and the reset vector
Cartridge(program, origin, vector, prg_len) ==
    LET bytes == [i \in {prg_index(prg_len, origin + k - 1) : k \in DOMAIN program}
                        \cup {prg_index(prg_len, 65532), prg_index(prg_len, 65533)}
                  |-> IF i = prg_index(prg_len, 65532) THEN vector % 256
                      ELSE IF i = prg_index(prg_len, 65533) THEN vector \div 256
                      ELSE program[i - prg_index(prg_len, origin) + 1]]
    IN [i \in {j \in DOMAIN bytes : bytes[j] # 0} |-> bytes[i]]

\* register files a caller assigns through the pub fields (cpu.rs:24-29):
\* the files a program at the origin is run from, and two far corners
RegisterFiles ==
    [register_a : {0, 5, 80, 255},
     register_x : {0},
     register_y : {0},
     status : {36, 37, 231},
     stack_pointer : {253},
     program_counter : Origins]
    \cup
    [register_a : {255},
     register_x : {1},
     register_y : {1},
     status : {231},
     stack_pointer : {0},
     program_counter : Origins \cup {65535}]

\* a RAM cell, then the first and the last address of the PRG-ROM range
PokeAddresses == {16, 32768, 65535}
PokeBytes == {85}

LoadPrograms == {<<>>, <<169, 10, 170, 0>>}

(***************************************************************************)
(* The state machine                                                       *)
(***************************************************************************)

Started(op, c) == [op |-> op, code |-> -1, before |-> c]

Init ==
    /\ \E program \in Programs, origin \in Origins, prg_len \in PrgLens :
          \E vector \in ResetVectors(program, origin) :
             cpu = new(Cartridge(program, origin, vector, prg_len), prg_len)
    /\ overflow_checks \in BOOLEAN
    /\ phase = "idle"
    /\ observed = 0
    /\ last = Started("new", cpu)

\* the caller assigns the registers before a run
SetRegisters ==
    /\ phase = "idle"
    /\ last.op = "new"
    /\ \E r \in RegisterFiles :
          cpu' = [cpu EXCEPT !.register_a = r.register_a,
                             !.register_x = r.register_x,
                             !.register_y = r.register_y,
                             !.status = r.status,
                             !.stack_pointer = r.stack_pointer,
                             !.program_counter = r.program_counter]
    /\ last' = Started("set", cpu)
    /\ UNCHANGED <<overflow_checks, phase, observed>>

\* the caller writes a byte through Mem::mem_write
Poke ==
    /\ phase = "idle"
    /\ last.op = "new"
    /\ \E address \in PokeAddresses, data \in PokeBytes :
          /\ cpu' = mem_write(cpu, address, data)
          /\ last' = [Started("mem_write", cpu) EXCEPT !.code = address]
    /\ phase' = IF Panicked(cpu') THEN "panicked" ELSE "idle"
    /\ UNCHANGED <<overflow_checks, observed>>

Load ==
    /\ phase = "idle"
    /\ last.op = "new"
    /\ \E program \in LoadPrograms :
          /\ cpu' = load(cpu, program)
          /\ last' = [op |-> "load", code |-> -1, before |-> cpu,
                      program |-> program]
    /\ phase' = IF Panicked(cpu') THEN "panicked" ELSE "idle"
    /\ UNCHANGED <<overflow_checks, observed>>

Reset ==
    /\ phase \in {"idle", "returned"}
    /\ cpu' = reset(cpu)
    /\ phase' = IF Panicked(cpu') THEN "panicked" ELSE "idle"
    /\ last' = Started("reset", cpu)
    /\ UNCHANGED <<overflow_checks, observed>>

\* run() enters the loop of run_with_callback
Run ==
    /\ phase = "idle"
    /\ phase' = "running"
    /\ last' = Started("run", cpu)
    /\ UNCHANGED <<cpu, overflow_checks, observed>>

\* load_and_run: load, then reset, then run
LoadAndRun ==
    /\ phase = "idle"
    /\ last.op = "new"
    /\ \E program \in LoadPrograms :
          LET loaded == load(cpu, program)
              ready == reset(loaded)
          IN /\ cpu' = IF Panicked(loaded) THEN loaded ELSE ready
             /\ last' = [op |-> "load_and_run", code |-> -1, before |-> cpu,
                         program |-> program]
    /\ phase' = IF Panicked(cpu') THEN "panicked" ELSE "running"
    /\ UNCHANGED <<overflow_checks, observed>>

\* one iteration of the loop
Step ==
    /\ phase = "running"
    /\ observed < MaxObserved
    /\ \E end \in {loop_body(cpu)} :
          /\ cpu' = end.cpu
          /\ phase' = end.phase
          /\ observed' = observed + end.calls
    /\ last' = [Started("step", cpu) EXCEPT
                   !.code = mem_read(cpu, cpu.program_counter)]
    /\ UNCHANGED overflow_checks

Next ==
    \/ SetRegisters
    \/ Poke
    \/ Load
    \/ Reset
    \/ Run
    \/ LoadAndRun
    \/ Step

Spec == Init /\ [][Next]_vars

\* the countdown cartridge under the same calls.  The loop of
\* run_with_callback has no exit but return and panic: while a run is under
\* way its next iteration is taken
InitCountdown ==
    /\ \E prg_len \in PrgLens :
          cpu = new(Cartridge(Countdown, PRG_ROM, PRG_ROM, prg_len), prg_len)
    /\ overflow_checks \in BOOLEAN
    /\ phase = "idle"
    /\ observed = 0
    /\ last = Started("new", cpu)

SpecCountdown == InitCountdown /\ [][Next]_vars /\ WF_vars(Step)

(***************************************************************************)
(* Properties.  `last` remembers the call that led to the current state:   *)
(* for a step of the loop, the opcode byte it fetched and the CPU it       *)
(* fetched it in.                                                          *)
(***************************************************************************)

\* the last step of the loop fetched one of these opcode bytes
Fetched(codes) == last.op = "step" /\ last.code \in codes

\* the CPU of the last fetch with PC on the byte after the opcode
AtOperand == [last.before EXCEPT !.program_counter = wrapping_add16(@, 1)]

\* the last step ran its instruction to the end of the loop body
Completed == phase = "running" /\ ~Panicked(cpu)

\* the bus reads the same byte everywhere in both CPUs
SameMemory(c, d) ==
    /\ c.cpu_vram = d.cpu_vram
    /\ c.prg_rom = d.prg_rom
    /\ c.prg_len = d.prg_len

SameRegisters(c, d) ==
    /\ c.register_a = d.register_a
    /\ c.register_x = d.register_x
    /\ c.register_y = d.register_y
    /\ c.stack_pointer = d.stack_pointer
    /\ c.status = d.status

\* opcode bytes by the register they write: LDA, TXA, TYA, PLA, AND, ORA,
\* EOR, ADC, SBC, and ASL/LSR/ROL/ROR on the accumulator
WritesA ==
    {169, 165, 181, 173, 189, 185, 161, 177} \cup {138, 152, 104}
    \cup {41, 37, 53, 45, 61, 57, 33, 49}
    \cup {9, 5, 21, 13, 29, 25, 1, 17}
    \cup {73, 69, 85, 77, 93, 89, 65, 81}
    \cup {105, 101, 117, 109, 125, 121, 97, 113}
    \cup {233, 229, 245, 237, 253, 249, 225, 241}
    \cup {10, 74, 42, 106}

\* LDX, TAX, TSX, INX, DEX
WritesX == {162, 166, 182, 174, 190} \cup {170, 186, 232, 202}

\* LDY, TAY, INY, DEY
WritesY == {160, 164, 180, 172, 188} \cup {168, 200, 136}

ZNOf(c, value) ==
    /\ contains(c.status, ZERO) <=> value = 0
    /\ contains(c.status, NEGATIVE) <=> value >= 128

\* C1: right after every instruction that writes A, X or Y, Z is set iff the
\* register written holds 0 and N equals bit 7 of it.
C1_ZeroNegativeFollowWrittenRegister ==
    /\ Fetched(WritesA) => Completed /\ ZNOf(cpu, cpu.register_a)
    /\ Fetched(WritesX) => Completed /\ ZNOf(cpu, cpu.register_x)
    /\ Fetched(WritesY) => Completed /\ ZNOf(cpu, cpu.register_y)

\* the operand byte the last fetched instruction addresses
LastOperand == operand(AtOperand, OPCODES_MAP[last.code].mode)

CarryIn(c) == IF contains(c.status, CARRY) THEN 1 ELSE 0

ADC == {105, 101, 117, 109, 125, 121, 97, 113}

\* C2: ADC of a, m and carry c leaves A = (a+m+c) mod 256, C = (a+m+c > 255)
\* and V = (((a XOR A') AND (m XOR A') AND 0x80) # 0), A' the new A.
C2_AdcSumCarryOverflow ==
    Fetched(ADC) /\ Completed =>
        LET a == last.before.register_a
            m == LastOperand
            sum == a + m + CarryIn(last.before)
        IN /\ cpu.register_a = sum % U8
           /\ contains(cpu.status, CARRY) <=> sum > 255
           /\ contains(cpu.status, OVERFLOW) <=>
                  And8(And8(Xor8(a, cpu.register_a), Xor8(m, cpu.register_a)),
                       128) # 0

SBC == {233, 229, 245, 237, 253, 249, 225, 241}

\* the byte after the opcode, the operand of an Immediate instruction
ImmediateOperand == mem_read(AtOperand, AtOperand.program_counter)

\* C3: SBC with operand m leaves the A and the status that ADC with operand
\* m XOR 0xFF leaves from the same starting state.
C3_SbcIsAdcOfComplement ==
    Fetched({233}) =>
        /\ Completed
        /\ cpu.register_a =
               add_to_a(AtOperand, Xor8(ImmediateOperand, 255)).register_a
        /\ cpu.status =
               add_to_a(AtOperand, Xor8(ImmediateOperand, 255)).status

\* C4: PHP pushes the status with B and U set and leaves the status as it
\* was; PLP after it restores C, Z, I, D, V, N, leaves B = 0 and U = 1, and
\* brings SP back.
C4_PhpPlpRoundTrip ==
    /\ Fetched({8}) =>
          /\ Completed
          /\ cpu.status = last.before.status
          /\ mem_read(cpu, STACK + last.before.stack_pointer) =
                 Or8(last.before.status, BREAK + BREAKBIS)
          /\ plp(cpu).stack_pointer = last.before.stack_pointer
          /\ plp(cpu).status =
                 insert(remove(last.before.status, BREAK), BREAKBIS)
    /\ Fetched({40}) =>
          /\ Completed
          /\ cpu.stack_pointer = wrapping_add8(last.before.stack_pointer, 1)
          /\ cpu.status =
                 insert(remove(mem_read(cpu, STACK + cpu.stack_pointer), BREAK),
                        BREAKBIS)

\* C5: JSR at p pushes the return address high byte first, and an RTS that
\* finds the stack as JSR left it sets PC to p + 3 and SP to its value
\* before the JSR; RTS pulls the low byte first.
C5_JsrRtsReturnsAfterCall ==
    /\ Fetched({32}) =>
          /\ Completed
          /\ cpu.stack_pointer = wrapping_sub8(last.before.stack_pointer, 2)
          /\ mem_read(cpu, STACK + last.before.stack_pointer) =
                 wrapping_add16(last.before.program_counter, 2) \div U8
          /\ mem_read(cpu, STACK + wrapping_sub8(last.before.stack_pointer, 1)) =
                 wrapping_add16(last.before.program_counter, 2) % U8
          /\ rts(cpu).program_counter =
                 wrapping_add16(last.before.program_counter, 3)
          /\ rts(cpu).stack_pointer = last.before.stack_pointer
    /\ Fetched({96}) =>
          /\ Completed
          /\ cpu.stack_pointer = wrapping_add8(last.before.stack_pointer, 2)
          /\ cpu.program_counter =
                 wrapping_add16(
                     mem_read(cpu, STACK + wrapping_add8(last.before.stack_pointer, 1))
                     + U8 * mem_read(cpu, STACK + cpu.stack_pointer), 1)

\* BPL, BMI, BVC, BVS, BCC, BCS, BNE, BEQ
Branches == {16, 48, 80, 112, 144, 176, 208, 240}

\* the condition of each branch on the status
BranchCondition(code, status) ==
    CASE code = 16 -> ~contains(status, NEGATIVE)
      [] code = 48 -> contains(status, NEGATIVE)
      [] code = 80 -> ~contains(status, OVERFLOW)
      [] code = 112 -> contains(status, OVERFLOW)
      [] code = 144 -> ~contains(status, CARRY)
      [] code = 176 -> contains(status, CARRY)
      [] code = 208 -> ~contains(status, ZERO)
      [] code = 240 -> contains(status, ZERO)

\* C6: after a taken branch PC is the address of the offset byte + 1 + the
\* sign-extended offset modulo 2^16, for every offset, 0xFF included (the
\* target is then the offset byte itself); after an untaken branch PC is the
\* address of the offset byte + 1; registers and flags do not change.
C6_BranchTarget ==
    Fetched(Branches) /\ Completed =>
        /\ SameRegisters(cpu, last.before)
        /\ cpu.program_counter =
               IF BranchCondition(last.code, last.before.status)
               THEN (AtOperand.program_counter + 1 + as_i8(ImmediateOperand)
                     + U16) % U16
               ELSE wrapping_add16(AtOperand.program_counter, 1)

\* the origin load copies a program to
Origin == 1536

\* C7: after load the reset vector reads the origin and every program byte
\* reads back at origin + i; load_and_run goes on to reset and run, so the
\* loop starts with PC at the origin.
C7_LoadSetsVectorAndProgram ==
    /\ last.op = "load" =>
          /\ ~Panicked(cpu)
          /\ mem_read_u16(cpu, 65532) = Origin
          /\ \A i \in DOMAIN last.program :
                mem_read(cpu, Origin + i - 1) = last.program[i]
    /\ last.op = "load_and_run" =>
          /\ phase = "running"
          /\ cpu.program_counter = Origin

\* C8: reset leaves A = X = Y = 0, SP = 0xFD, P = 0x24 and PC = the
\* little-endian word at 0xFFFC, changes no byte of memory, and a second
\* reset changes nothing.
C8_ResetState ==
    last.op = "reset" =>
        /\ phase = "idle"
        /\ cpu.register_a = 0
        /\ cpu.register_x = 0
        /\ cpu.register_y = 0
        /\ cpu.stack_pointer = 253
        /\ cpu.status = 36
        /\ cpu.program_counter =
               mem_read(last.before, 65532) + U8 * mem_read(last.before, 65533)
        /\ SameMemory(cpu, last.before)
        /\ reset(cpu) = cpu

\* a reset of a CPU whose registers, status, stack pointer and PC all differ
\* from the reset values, with a byte stored in RAM by the run before it
C8_ResetAfterRun ==
    /\ last.op = "reset"
    /\ last.before.register_a # 0
    /\ last.before.register_x # 0
    /\ last.before.stack_pointer # 253
    /\ last.before.status # 36
    /\ last.before.program_counter # cpu.program_counter
    /\ last.before.cpu_vram # <<>>

\* C9: a fetched byte that is not in the table ends the run with a failure
\* that carries the byte and the PC; nothing is applied to A, X, Y, P, SP
\* or memory, the observer is not called and there is no next fetch.
C9_UnknownOpcodeFailure ==
    [][phase = "running"
          /\ mem_read(cpu, cpu.program_counter) \notin DOMAIN OPCODES_MAP
       => /\ phase' = "panicked"
          /\ SameRegisters(cpu', cpu)
          /\ SameMemory(cpu', cpu)
          /\ observed' = observed
          /\ cpu'.panic.args =
                 <<mem_read(cpu, cpu.program_counter), cpu.program_counter>>
      ]_vars

\* C10: the loop returns when, and only when, it fetches 0x00; then nothing
\* is pushed, A, X, Y, P, SP and memory are as before the fetch and PC is
\* the address just after the 0x00 byte.
C10_ReturnsExactlyOnBrk ==
    /\ Fetched({0}) =>
          /\ phase = "returned"
          /\ SameRegisters(cpu, last.before)
          /\ SameMemory(cpu, last.before)
          /\ cpu.program_counter = wrapping_add16(last.before.program_counter, 1)
    /\ phase = "returned" => Fetched({0})

\* C11: the observer is called exactly once for every instruction that runs
\* to the end of the loop body, and not for the halting 0x00 nor for an
\* instruction that fails: an iteration adds one call when the loop goes on
\* to the next fetch and none when the run returns or panics.  By induction
\* the number of calls is the number of instructions completed.
C11_ObserverOncePerInstruction ==
    [][phase = "running" =>
          /\ phase' = "running" =>
                /\ observed' = observed + 1
                /\ mem_read(cpu, cpu.program_counter) \in DOMAIN OPCODES_MAP \ {0}
                /\ ~Panicked(cpu')
          /\ phase' # "running" =>
                /\ observed' = observed
                /\ \/ phase' = "returned" /\ mem_read(cpu, cpu.program_counter) = 0
                   \/ phase' = "panicked" /\ Panicked(cpu')
      ]_vars

\* the second instruction completed since construction: a two-byte one whose
\* effects and bump are in the state the observer is called with
C11_SecondCallAfterBump ==
    /\ Fetched({169})
    /\ Completed
    /\ observed = 2
    /\ cpu.register_a = ImmediateOperand
    /\ ImmediateOperand # last.before.register_a
    /\ cpu.program_counter = wrapping_add16(last.before.program_counter, 2)

(***************************************************************************)
(* Addressing as a function: a caller builds a CPU, writes bytes to RAM    *)
(* through Mem::mem_write, assigns X, Y and PC, and asks for the address   *)
(* of the operand at PC in each mode.                                      *)
(***************************************************************************)

\* the variants of enum AddressingMode (cpu.rs:35-46)
AddressingModes ==
    {"Immediate", "ZeroPage", "ZeroPage_X", "ZeroPage_Y", "Absolute",
     "Absolute_X", "Absolute_Y", "Indirect_X", "Indirect_Y", "NoneAddressing"}

\* where the operand bytes of the calls are: 0x0200, in RAM
OperandAddress == 512

\* a chain of mem_write calls
RECURSIVE mem_writes(_, _)
mem_writes(c, writes) ==
    IF writes = <<>> THEN c
    ELSE mem_writes(mem_write(c, Head(writes)[1], Head(writes)[2]), Tail(writes))

\* pointers in page 0, with different bytes at 0x0000 and at 0x0100 so that
\* a pointer at 0x00FF tells the two apart, then the two operand bytes
PointerTable(lo, hi) ==
    <<<<0, 33>>, <<1, 67>>, <<2, 101>>, <<3, 18>>, <<254, 120>>, <<255, 135>>,
      <<256, 169>>, <<257, 203>>,
      <<OperandAddress, lo>>, <<OperandAddress + 1, hi>>>>

InitAddressing ==
    /\ \E lo \in {0, 1, 254, 255}, hi \in {0, 1, 255},
          x \in {0, 1, 2, 255}, y \in {0, 1, 255} :
          cpu = [mem_writes(new(Cartridge(<<>>, PRG_ROM, PRG_ROM, 2 * PRG_BANK),
                                2 * PRG_BANK),
                            PointerTable(lo, hi))
                   EXCEPT !.register_x = x,
                          !.register_y = y,
                          !.program_counter = OperandAddress]
    /\ overflow_checks \in BOOLEAN
    /\ phase = "idle"
    /\ observed = 0
    /\ last = Started("new", cpu)

\* what a call that returns a value leaves: the value, or its panic
Returned(op, mode, value) ==
    /\ last' = [op |-> op, code |-> mode, before |-> cpu, value |-> value]
    /\ cpu' = IF Faulty(value) THEN Raise(cpu, PanicOf(value)) ELSE cpu
    /\ phase' = IF Faulty(value) THEN "panicked" ELSE "idle"
    /\ UNCHANGED <<overflow_checks, observed>>

CallGetAbsoluteAddress ==
    /\ phase = "idle"
    /\ last.op = "new"
    /\ \E mode \in AddressingModes :
          Returned("get_absolute_address", mode,
                   get_absolute_address(cpu, mode, cpu.program_counter))

CallGetOperandAddress ==
    /\ phase = "idle"
    /\ last.op = "new"
    /\ \E mode \in AddressingModes :
          Returned("get_operand_address", mode, get_operand_address(cpu, mode))

NextAddressing ==
    \/ CallGetAbsoluteAddress
    \/ CallGetOperandAddress

SpecAddressing == InitAddressing /\ [][NextAddressing]_vars

\* the reads of the reference table
read8(c, addr) == mem_read(c, addr)
read16_le(c, addr) == read8(c, addr) + U8 * read8(c, (addr + 1) % U16)

\* the byte pair a pointer p in page 0 names, its high byte at (p+1) mod 256
ZeroPagePointer(c, p) == read8(c, p) + U8 * read8(c, (p + 1) % U8)

\* the reference table of the effective address, PC on the operand
ReferenceAddress(c, mode) ==
    LET pc == c.program_counter
    IN CASE mode = "Immediate" -> pc
         [] mode = "ZeroPage" -> read8(c, pc)
         [] mode = "ZeroPage_X" -> (read8(c, pc) + c.register_x) % U8
         [] mode = "ZeroPage_Y" -> (read8(c, pc) + c.register_y) % U8
         [] mode = "Absolute" -> read16_le(c, pc)
         [] mode = "Absolute_X" -> (read16_le(c, pc) + c.register_x) % U16
         [] mode = "Absolute_Y" -> (read16_le(c, pc) + c.register_y) % U16
         [] mode = "Indirect_X" ->
               ZeroPagePointer(c, (read8(c, pc) + c.register_x) % U8)
         [] mode = "Indirect_Y" ->
               (ZeroPagePointer(c, read8(c, pc)) + c.register_y) % U16

PointerOperand == read16_le(AtOperand, AtOperand.program_counter)

\* C13: JMP indirect with pointer ptr sets PC to read(ptr) | read(ptr+1) << 8,
\* and to read(ptr) | read(ptr AND 0xFF00) << 8 when the low byte of ptr is
\* 0xFF; no bump is added, PC is exactly that value.
C13_JmpIndirectTarget ==
    Fetched({108}) =>
        /\ Completed
        /\ cpu.program_counter =
               IF PointerOperand % U8 = 255
               THEN read8(last.before, PointerOperand)
                    + U8 * read8(last.before, PointerOperand - 255)
               ELSE read16_le(last.before, PointerOperand)

\* the stack cell the stack pointer sp names, in page 1
StackCell(sp) == STACK + sp

\* C14: a push stores at 0x0100 + SP and then sets SP to (SP - 1) mod 256, a
\* pull sets SP to (SP + 1) mod 256 and then reads 0x0100 + SP, so every
\* stack access is in 0x0100..0x01FF; a push at SP = 0x00 and a pull at
\* SP = 0xFF wrap without an error.  Stated for PHA and PLA, the one-byte
\* push and pull of the accumulator.
C14_StackStaysInPageOne ==
    /\ Fetched({72}) =>
          /\ Completed
          /\ cpu.stack_pointer = (last.before.stack_pointer + U8 - 1) % U8
          /\ read8(cpu, StackCell(last.before.stack_pointer)) =
                 last.before.register_a
          /\ \A i \in DOMAIN cpu.cpu_vram :
                i # StackCell(last.before.stack_pointer) =>
                    Cell(cpu.cpu_vram, i) = Cell(last.before.cpu_vram, i)
    /\ Fetched({104}) =>
          /\ Completed
          /\ cpu.stack_pointer = (last.before.stack_pointer + 1) % U8
          /\ cpu.register_a = read8(last.before, StackCell(cpu.stack_pointer))

\* the cartridge holds the countdown program at 0x8000 and the reset vector
\* names 0x8000
CountdownCartridge(c) ==
    /\ \A i \in DOMAIN Countdown : read8(c, PRG_ROM + i - 1) = Countdown[i]
    /\ read16_le(c, 65532) = PRG_ROM

\* C15: run from reset on the countdown program eventually halts at its
\* BRK, with 0x03 at 0x0200 and in X.
C15_CountdownHalts ==
    (/\ CountdownCartridge(cpu)
     /\ phase = "running"
     /\ last.op = "run"
     /\ cpu = reset(cpu))
    ~> (/\ phase = "returned"
        /\ read8(cpu, 512) = 3
        /\ cpu.register_x = 3)

\* opcode bytes of the shifts: accumulator form, then memory forms
ASL == {10} \cup {6, 22, 14, 30}
LSR == {74} \cup {70, 86, 78, 94}
ROL == {42} \cup {38, 54, 46, 62}
ROR == {106} \cup {102, 118, 110, 126}
AccumulatorForms == {10, 74, 42, 106}

\* the value and the carry a shift of v with carry c yields
ShiftValue(code, v, c) ==
    CASE code \in ASL -> (2 * v) % U8
      [] code \in LSR -> v \div 2
      [] code \in ROL -> (2 * v + c) % U8
      [] code \in ROR -> v \div 2 + 128 * c

ShiftCarry(code, v) ==
    IF code \in ASL \cup ROL THEN v >= 128 ELSE v % 2 = 1

\* C16: ROR A leaves A = (a >> 1) | (c << 7), C = bit 0 of a and Z, N of the
\* new A; each of ASL, LSR, ROL, ROR yields the same value and the same
\* C, Z, N in its accumulator form (stored in A) as in its memory form
\* (written back to the operand address).
C16_ShiftFormsAgree ==
    /\ Fetched(AccumulatorForms) =>
          /\ Completed
          /\ cpu.register_a =
                 ShiftValue(last.code, last.before.register_a,
                            CarryIn(last.before))
          /\ contains(cpu.status, CARRY) <=>
                 ShiftCarry(last.code, last.before.register_a)
          /\ ZNOf(cpu, cpu.register_a)
    /\ Fetched((ASL \cup LSR \cup ROL \cup ROR) \ AccumulatorForms)
       /\ last.code \in DOMAIN OPCODES_MAP =>
          /\ Completed
          /\ read8(cpu, get_operand_address(AtOperand,
                                            OPCODES_MAP[last.code].mode)) =
                 ShiftValue(last.code, LastOperand, CarryIn(last.before))
          /\ contains(cpu.status, CARRY) <=> ShiftCarry(last.code, LastOperand)
          /\ ZNOf(cpu, ShiftValue(last.code, LastOperand, CarryIn(last.before)))

\* C17: TXS sets SP to X and changes no status flag, Z and N included, nor
\* A, X, Y or memory.
C17_TxsLeavesFlags ==
    Fetched({154}) =>
        /\ Completed
        /\ cpu.stack_pointer = last.before.register_x
        /\ cpu.status = last.before.status
        /\ cpu.register_a = last.before.register_a
        /\ cpu.register_x = last.before.register_x
        /\ cpu.register_y = last.before.register_y
        /\ SameMemory(cpu, last.before)

\* CMP, CPX, CPY with an immediate operand, and the register each compares
CompareImmediate == {201, 224, 192}

ComparedRegister(code, c) ==
    CASE code = 201 -> c.register_a
      [] code = 224 -> c.register_x
      [] code = 192 -> c.register_y

\* C18: CMP, CPX and CPY of register value r with operand m set C iff
\* r >= m, Z iff r = m and N to bit 7 of (r - m) mod 256, and leave A, X, Y,
\* SP, V and memory as they were.
C18_CompareFlags ==
    Fetched(CompareImmediate) =>
        /\ Completed
        /\ contains(cpu.status, CARRY) <=>
               ComparedRegister(last.code, last.before) >= ImmediateOperand
        /\ contains(cpu.status, ZERO) <=>
               ComparedRegister(last.code, last.before) = ImmediateOperand
        /\ contains(cpu.status, NEGATIVE) <=>
               (ComparedRegister(last.code, last.before) - ImmediateOperand
                + U8) % U8 >= 128
        /\ contains(cpu.status, OVERFLOW) <=>
               contains(last.before.status, OVERFLOW)
        /\ cpu.register_a = last.before.register_a
        /\ cpu.register_x = last.before.register_x
        /\ cpu.register_y = last.before.register_y
        /\ cpu.stack_pointer = last.before.stack_pointer
        /\ SameMemory(cpu, last.before)

\* the panic of Bus::mem_write on 0x8000..=0xFFFF
RomPanic == [msg |-> "Do not write on ROM space !!", args |-> <<>>]

\* addresses of the PRG-ROM range whose bytes are compared: both ends, the
\* mirror boundary, the operand bytes and the reset vector
RomProbes == {32768, 32769, 32770, 49151, 49152, 65532, 65533, 65535}

\* STA and ASL in their absolute forms, whose operand can lie in PRG-ROM
AbsoluteWriters == {141, 157, 153, 14, 30}

\* the address the last fetched instruction writes to
LastAddress == get_operand_address(AtOperand, OPCODES_MAP[last.code].mode)

\* C19: a bus write to 0x8000..=0xFFFF is fatal and changes nothing: the
\* PRG-ROM and every byte read from its range stay what they were before
\* each call and each instruction, and a write to the range by mem_write, by
\* load or by a store or read-modify-write instruction ends in the panic
\* "Do not write on ROM space !!"; the write of mem_write and of an
\* instruction leaves RAM as it was too.
C19_RomWritesAreFatal ==
    /\ cpu.prg_rom = last.before.prg_rom
    /\ cpu.prg_len = last.before.prg_len
    /\ \A a \in RomProbes : mem_read(cpu, a) = mem_read(last.before, a)
    /\ last.op = "mem_write" /\ last.code >= PRG_ROM =>
          /\ phase = "panicked"
          /\ cpu = Raise(last.before, RomPanic)
    /\ last.op \in {"load", "load_and_run"} =>
          /\ phase = "panicked"
          /\ cpu.panic = RomPanic
    /\ Fetched(AbsoluteWriters) /\ LastAddress >= PRG_ROM =>
          /\ phase = "panicked"
          /\ cpu.panic = RomPanic
          /\ SameMemory(cpu, last.before)

\* STA $8000 was fetched and its write to the PRG-ROM ended the run
C19_StoreToRomPanicked ==
    /\ Fetched({141})
    /\ LastAddress = PRG_ROM
    /\ phase = "panicked"
    /\ cpu.panic = RomPanic
    /\ mem_read(cpu, PRG_ROM) = 141

(***************************************************************************)
(* The bus under sequences of writes and reads (bus.rs:32-73)              *)
(***************************************************************************)

\* RAM cells 0x0000, 0x0010, 0x07FF and mirrors of them in each of the three
\* mirror blocks, then 0x4020, which the bus ignores
BusAddresses == {0, 16, 2047, 2048, 2064, 4095, 4112, 6160, 8191, 16416}

BusBytes == {0, 1, 255}

InitBus ==
    /\ cpu = new(Cartridge(<<>>, PRG_ROM, PRG_ROM, PRG_BANK), PRG_BANK)
    /\ overflow_checks \in BOOLEAN
    /\ phase = "idle"
    /\ observed = 0
    /\ last = [op |-> "new", code |-> -1, before |-> cpu, value |-> 0]

BusWrite ==
    /\ phase = "idle"
    /\ \E address \in BusAddresses, data \in BusBytes :
          /\ cpu' = mem_write(cpu, address, data)
          /\ last' = [op |-> "mem_write", code |-> address, before |-> cpu,
                      value |-> data]
    /\ phase' = IF Panicked(cpu') THEN "panicked" ELSE "idle"
    /\ UNCHANGED <<overflow_checks, observed>>

BusRead ==
    /\ phase = "idle"
    /\ \E address \in BusAddresses :
          Returned("mem_read", address, mem_read(cpu, address))

NextBus ==
    \/ BusWrite
    \/ BusRead

SpecBus == InitBus /\ [][NextBus]_vars

\* the RAM range of the bus, mirrors included
RamRange == RAM .. RAM_END

\* the cell of the 2 KiB RAM an address of the range names
Mirror(a) == a % 2048

\* the addresses of the range compared: in each of the four blocks the
\* cells that are written, and next to them cells that never are
RamProbes == {a \in RamRange : Mirror(a) \in {0, 1, 16, 17, 2046, 2047}}

\* the cells that hold a byte other than 0 in one of two RAMs
Cells(c, d) == DOMAIN c.cpu_vram \cup DOMAIN d.cpu_vram

\* C20: RAM is mirrored across 0x0000..=0x1FFF by the low 11 address bits:
\* after any sequence of bus writes read(a) = read(a AND 0x07FF) for every a
\* of the range, a read returns the byte of cell (a AND 0x07FF), and a write
\* to a changes the cell (a AND 0x07FF) to the byte written and no other
\* cell.
C20_RamMirroredByLowBits ==
    /\ \A a \in RamProbes : mem_read(cpu, a) = mem_read(cpu, Mirror(a))
    /\ DOMAIN cpu.cpu_vram \subseteq 0 .. 2047
    /\ last.op = "mem_read" /\ last.code \in RamRange =>
          last.value = Cell(cpu.cpu_vram, Mirror(last.code))
    /\ last.op = "mem_write" /\ last.code \in RamRange =>
          /\ phase = "idle"
          /\ Cell(cpu.cpu_vram, Mirror(last.code)) = last.value
          /\ \A a \in RamProbes :
                mem_read(cpu, a) =
                   IF Mirror(a) = Mirror(last.code) THEN last.value
                   ELSE mem_read(last.before, a)
          /\ \A i \in Cells(cpu, last.before) \ {Mirror(last.code)} :
                Cell(cpu.cpu_vram, i) = Cell(last.before.cpu_vram, i)
          /\ cpu.prg_rom = last.before.prg_rom

\* a write to the mirror 0x1810 changed the cell 0x0010 while the cell
\* 0x07FF kept the byte of an earlier write
C20_WriteThroughMirror ==
    /\ last.op = "mem_write"
    /\ last.code = 6160
    /\ last.value = 255
    /\ mem_read(last.before, 16) = 1
    /\ mem_read(cpu, 16) = 255
    /\ mem_read(cpu, 2064) = 255
    /\ mem_read(cpu, 8191) = 1

\* C21: no arithmetic of the interpreter fails on overflow, it wraps: no run
\* ends in the panic of an overflowing addition, and the PC incremented
\* after a fetch at 0xFFFF is 0x0000, so that a 0x00 fetched there returns
\* with PC = 0x0000.
C21_ArithmeticWraps ==
    /\ cpu.panic # PanicOf(Overflowed)
    /\ Fetched({0}) /\ last.before.program_counter = U16 - 1 =>
          /\ phase = "returned"
          /\ cpu.program_counter = 0

\* STA in the forms of the table
STA == {133, 149, 141, 157, 153, 129, 145}

\* a store of value to the RAM address target ran to the end of the loop
\* body and changed the cell of target alone
Stored(target, value) ==
    /\ Completed
    /\ SameRegisters(cpu, last.before)
    /\ mem_read(cpu, target) = value
    /\ \A i \in Cells(cpu, last.before) \ {Mirror(target)} :
          Cell(cpu.cpu_vram, i) = Cell(last.before.cpu_vram, i)
    /\ cpu.prg_rom = last.before.prg_rom
    /\ cpu.prg_len = last.before.prg_len

\* C22: STA, STX and STY write the register to the effective address and
\* change nothing else: the flags, A, X, Y, SP and every other memory byte
\* keep their values.  (Stated for effective addresses in RAM; of STX and
\* STY the absolute forms 0x8e and 0x8c.)
C22_StoresChangeNothingElse ==
    /\ Fetched(STA) /\ LastAddress \in RamRange =>
          Stored(LastAddress, last.before.register_a)
    /\ Fetched({142})
       /\ get_operand_address(AtOperand, "Absolute") \in RamRange =>
          Stored(get_operand_address(AtOperand, "Absolute"),
                 last.before.register_x)
    /\ Fetched({140})
       /\ get_operand_address(AtOperand, "Absolute") \in RamRange =>
          Stored(get_operand_address(AtOperand, "Absolute"),
                 last.before.register_y)

\* the byte the n-th pull from the stack of c returns
Pulled(c, n) == mem_read(c, STACK + wrapping_add8(c.stack_pointer, n))

\* C23: RTI pulls a status byte, then the PC low byte, then the PC high
\* byte: SP increases by 3 modulo 256, C, Z, I, D, V, N are the bits of the
\* pulled status byte, B is 0 and U is 1, and PC is exactly the pulled 16-bit
\* value.
C23_RtiRestoresStatusAndPc ==
    Fetched({64}) =>
        /\ Completed
        /\ cpu.stack_pointer = wrapping_add8(last.before.stack_pointer, 3)
        /\ cpu.status = insert(remove(Pulled(last.before, 1), BREAK), BREAKBIS)
        /\ cpu.program_counter =
               Pulled(last.before, 3) * 256 + Pulled(last.before, 2)

\* the number of operand bytes of an addressing mode
OperandLength(mode) ==
    CASE mode = "NoneAddressing" -> 0
      [] mode \in {"Immediate", "ZeroPage", "ZeroPage_X", "ZeroPage_Y",
                   "Indirect_X", "Indirect_Y"} -> 1
      [] mode \in {"Absolute", "Absolute_X", "Absolute_Y"} -> 2

\* the table's opcodes that are no branch (it holds no jump, call or return)
Sequential == DOMAIN OPCODES_MAP \ Branches

\* C24: for every opcode of the table that is no branch, jump, call or
\* return, the record's length is 1 + the operand bytes of its mode, and
\* after the loop has executed it at address p the PC is p + 1 + the operand
\* bytes of its mode.
C24_PcAdvancesByModeLength ==
    Fetched(Sequential) /\ (Completed \/ phase = "returned") =>
        /\ OPCODES_MAP[last.code].len =
               1 + OperandLength(OPCODES_MAP[last.code].mode)
        /\ cpu.program_counter =
               wrapping_add16(last.before.program_counter,
                              1 + OperandLength(OPCODES_MAP[last.code].mode))

\* the panic of the `_ => todo!()` arm
TodoPanic == [msg |-> "not yet implemented", args |-> <<>>]

\* the opcode bytes the match names in an arm: 0x00, and every byte whose
\* dispatch does not end in the default arm
Handled ==
    {0} \cup
    {code \in 1 .. 255 :
        dispatch(new(<<>>, PRG_BANK), code,
                 Op(code, "", 1, 0, "NoneAddressing")).panic # TodoPanic}

\* C25: the bytes with a record in the table are the bytes the dispatch has
\* semantics for: a byte the match handles is found by the lookup and does
\* not fail as an unknown opcode, and a byte of the table reaches an arm of
\* the match and not the unimplemented default.
C25_TableMatchesDispatch ==
    /\ Fetched(Handled) =>
          cpu.panic.msg # "OpCode {:x} is not recognized"
    /\ Fetched(DOMAIN OPCODES_MAP) => cpu.panic # TodoPanic

\* C26: in every state reached from reset() by instructions the status in
\* the CPU has B clear and U set, and PLP and RTI pull a status byte and
\* leave it in the CPU with B = 0 and U = 1 whatever the byte is.
C26_BreakClearUnusedSet ==
    /\ ~contains(cpu.status, BREAK)
    /\ contains(cpu.status, BREAKBIS)
    /\ Fetched({40, 64}) =>
          /\ Completed
          /\ cpu.stack_pointer # last.before.stack_pointer
          /\ cpu.status =
                 insert(remove(Pulled(last.before, 1), BREAK), BREAKBIS)

\* C27: the stack is last-in-first-out across the wrap of SP: PHA followed
\* by PLA leaves A and SP as they were before the PHA and sets Z and N from
\* A, for every starting SP, 0x00 included.
C27_PhaPlaRoundTrip ==
    Fetched({72}) =>
        /\ Completed
        /\ pla(cpu).register_a = last.before.register_a
        /\ pla(cpu).stack_pointer = last.before.stack_pointer
        /\ ZNOf(pla(cpu), last.before.register_a)

====
